---- MODULE Spec2Model ----
(***************************************************************************)
(* tokio-tree-context (src/src/lib.rs): a tree of cancellation contexts.   *)
(*                                                                         *)
(* A Context owns the Sender of a tokio broadcast channel of capacity 1    *)
(* (its Signal).  new_child_context subscribes to the caller's channel and *)
(* spawns a propagator task that awaits one recv() and then sends () on    *)
(* the child's channel through an upgraded WeakSender.  spawn_with_timeout *)
(* subscribes to the context's channel and spawns a task that runs         *)
(* tokio::select! over the user future, rx.recv() and an optional sleep.   *)
(* The runtime polls a task when it is scheduled: at its spawn and each    *)
(* time one of the wakers it left behind in its last poll is called.       *)
(*                                                                         *)
(* What the model keeps of tokio's broadcast channel:                      *)
(*   - a Receiver made by subscribe() sees only the values sent after the  *)
(*     subscribe (its position is the channel's tail at that moment);      *)
(*   - recv() completes when such a value exists (Ok, or Err(Lagged)) or   *)
(*     when every strong Sender is gone (Err(Closed));                     *)
(*   - WeakSender::upgrade succeeds iff a strong Sender still exists;      *)
(*   - send(()) and the drop of the last strong Sender call the wakers of  *)
(*     the parked Receivers;                                               *)
(*   - recv() and sleep are under tokio's cooperative budget: once the     *)
(*     task has used it up in the current poll they return Pending,        *)
(*     whatever they hold, and reschedule the task.                        *)
(* What the model keeps of tokio's timer (sleep_until):                    *)
(*   - the deadline is Instant::now() + duration, computed when the        *)
(*     select! is entered; the addition panics when it overflows;          *)
(*   - the first poll of the sleep that finds budget registers the timer:  *)
(*     it is Ready at once when the deadline is not in the future (a zero  *)
(*     duration), and it panics when the deadline is within a millisecond  *)
(*     of the largest Instant (rounding it up to a timer tick overflows);  *)
(*   - a registered timer calls the task's waker when the deadline passes. *)
(***************************************************************************)
EXTENDS Naturals, FiniteSets, Sequences

\* Bounds of the model.
MaxCtx == 3
MaxTasks == 1
MaxSteps == 2

Ctxs == 1..MaxCtx
Tasks == 1..MaxTasks
\* Outputs a user future may produce.
Outputs == {"a", "b"}
\* A user future is described by the number of polls it needs to complete
\* (Never: it stays pending for ever) and by its output.
Never == 0
Lens == 0..MaxSteps

VARIABLES
    context,      \* context[c]: "absent" | "alive" | "dropped" (the Context value and its Sender)
    signal,       \* signal[c]: number of send(()) calls made on c's channel
    strong,       \* strong[c]: number of live strong Sender handles of c's channel
    propagator,   \* propagator[c]: the task spawned by new_child_context for child c
    task          \* task[t]: the race task spawned by spawn_with_timeout

vars == <<context, signal, strong, propagator, task>>

None == [tag |-> "None", val |-> ""]
Some(v) == [tag |-> "Some", val |-> v]
\* JoinHandle not yet resolved.
Pending == [tag |-> "Pending", val |-> ""]
\* The race task panicked: its JoinHandle gives Err(JoinError::Panic).
Panicked == [tag |-> "JoinError", val |-> "panic"]

NoPropagator == [state |-> "none", parent |-> 0, rx |-> 0]
NoTask == [state |-> "unspawned", ctx |-> 0, len |-> 0, out |-> "", timeout |-> "none",
           progress |-> 0, rx |-> 0, result |-> Pending, deadAtSpawn |-> {},
           woken |-> FALSE]

\* ---- the tree (kept only by the propagator tasks) ----

\* 0 for the root (and for the ctx field of a task not spawned yet).
Parent(c) == IF c \in Ctxs THEN propagator[c].parent ELSE 0

RECURSIVE Ancestors(_)
\* Strict ancestors of c.
Ancestors(c) == IF Parent(c) = 0 THEN {} ELSE {Parent(c)} \cup Ancestors(Parent(c))

AncestorsOrSelf(c) == ({c} \cup Ancestors(c)) \cap Ctxs

\* ---- the broadcast channel ----

\* Strong Sender handles of c's channel: made by broadcast::channel, clone()
\* and upgrade(), released by every drop of a Sender.
StrongCount(c) == strong[c]

\* The channel is closed once every strong Sender has been dropped.
Closed(c) == context[c] # "absent" /\ StrongCount(c) = 0

\* subscribe(): the new Receiver starts at the channel's current tail.
subscribe(c) == signal[c]

\* Mutant: recv() only completes on a value, a closed channel is not noticed.
RecvReady_ValueOnly(c, pos) == signal[c] > pos

\* rx.recv() of a Receiver at position pos on c's channel is complete.
RecvReady(c, pos) == signal[c] > pos \/ Closed(c)

\* The tasks after send(()) or the close of c's channel: the wakers of the
\* Receivers parked on it are called, which schedules every pending race
\* task of c.
WakeReceivers(c) ==
    [t \in DOMAIN task |->
        IF task[t].state = "pending" /\ task[t].ctx = c
        THEN [task[t] EXCEPT !.woken = TRUE]
        ELSE task[t]]

\* The tasks after one strong Sender of c's channel is dropped: the channel
\* closes, and wakes its Receivers, when that Sender was the last one.
AfterSenderDrop(c) == IF StrongCount(c) = 1 THEN WakeReceivers(c) ELSE task

\* ---- Context ----

NextCtx == CHOOSE c \in Ctxs : context[c] = "absent" /\ \A d \in Ctxs : d < c => context[d] # "absent"

\* The root of the tree, made by Context::new.
Root == 1

\* Mutant: creating a child also sends on the caller's channel.
new_child_context_Emits(p) ==
    /\ context[p] = "alive"
    /\ \E c \in Ctxs : context[c] = "absent"
    /\ context' = [context EXCEPT ![NextCtx] = "alive"]
    /\ propagator' = [propagator EXCEPT ![NextCtx] =
                        [state |-> "waiting", parent |-> p, rx |-> subscribe(p)]]
    /\ strong' = [strong EXCEPT ![NextCtx] = (1 + 1) - 1]
    /\ signal' = [signal EXCEPT ![p] = 1]
    /\ UNCHANGED task

\* Mutant: new_tx_clone is not dropped (it moves into the propagator).
new_child_context_KeepsClone(p) ==
    /\ context[p] = "alive"
    /\ \E c \in Ctxs : context[c] = "absent"
    /\ context' = [context EXCEPT ![NextCtx] = "alive"]
    /\ strong' = [strong EXCEPT ![NextCtx] = 1 + 1]
    /\ propagator' = [propagator EXCEPT ![NextCtx] =
                        [state |-> "waiting", parent |-> p, rx |-> subscribe(p)]]
    /\ UNCHANGED <<signal, task>>

\* Context::new_child_context.  The channel is made with one Sender (new_tx);
\* new_tx_clone adds one and drop(new_tx_clone) releases it again, leaving the
\* propagator with a WeakSender only.
new_child_context(p) ==
    /\ context[p] = "alive"
    /\ \E c \in Ctxs : context[c] = "absent"
    /\ context' = [context EXCEPT ![NextCtx] = "alive"]
    /\ strong' = [strong EXCEPT ![NextCtx] = (1 + 1) - 1]
    /\ propagator' = [propagator EXCEPT ![NextCtx] =
                        [state |-> "waiting", parent |-> p, rx |-> subscribe(p)]]
    /\ UNCHANGED <<signal, task>>

\* Context::with_parent
with_parent(p) == new_child_context(p)

\* Dropping a Context drops its cancel_sender.
DropContext(c) ==
    /\ context[c] = "alive"
    /\ context' = [context EXCEPT ![c] = "dropped"]
    /\ strong' = [strong EXCEPT ![c] = @ - 1]
    /\ task' = AfterSenderDrop(c)
    /\ UNCHANGED <<signal, propagator>>

\* Context::cancel(self) {}
cancel(c) == DropContext(c)

\* ---- the propagator task of new_child_context ----

\* Mutant: the propagator keeps the strong clone instead of the WeakSender.
PropagatorUpgradeEffect_Strong(c) ==
    /\ propagator' = [propagator EXCEPT ![c].state = "upgraded"]
    /\ strong' = [strong EXCEPT ![c] = @ + 1]

\* let _ = rx.recv().await; wsender.upgrade(): a new strong Sender when one
\* still exists, None otherwise.
PropagatorUpgradeEffect(c) ==
    IF StrongCount(c) > 0
    THEN /\ propagator' = [propagator EXCEPT ![c].state = "upgraded"]
         /\ strong' = [strong EXCEPT ![c] = @ + 1]
    ELSE /\ propagator' = [propagator EXCEPT ![c].state = "discarded"]
         /\ UNCHANGED strong

\* Mutant: the propagator does not await the parent's recv().
PropagatorWake_NoRecv(c) ==
    /\ propagator[c].state = "waiting"
    /\ PropagatorUpgradeEffect(c)
    /\ UNCHANGED <<context, signal, task>>

\* Mutant: the propagator reacts to the destruction of the parent Context
\* instead of the completion of the parent's recv().
PropagatorWake_OnParentDrop(c) ==
    /\ propagator[c].state = "waiting"
    /\ (context[Parent(c)] = "dropped" \/ RecvReady(Parent(c), propagator[c].rx))
    /\ PropagatorUpgradeEffect(c)
    /\ UNCHANGED <<context, signal, task>>

PropagatorWake(c) ==
    /\ propagator[c].state = "waiting"
    /\ RecvReady(Parent(c), propagator[c].rx)
    /\ PropagatorUpgradeEffect(c)
    /\ UNCHANGED <<context, signal, task>>

\* Mutant: the propagator sends twice.
PropagatorSend_Twice(c) ==
    /\ propagator[c].state = "upgraded"
    /\ signal' = [signal EXCEPT ![c] = @ + 2]
    /\ propagator' = [propagator EXCEPT ![c].state = "sent"]
    /\ task' = WakeReceivers(c)
    /\ UNCHANGED <<context, strong>>

\* .map(|x| x.send(())): x.send(()) stores the value and wakes the receivers;
\* the closure still owns the upgraded Sender x when send returns.
PropagatorSend(c) ==
    /\ propagator[c].state = "upgraded"
    /\ signal' = [signal EXCEPT ![c] = @ + 1]
    /\ propagator' = [propagator EXCEPT ![c].state = "sent"]
    /\ task' = WakeReceivers(c)
    /\ UNCHANGED <<context, strong>>

\* Mutant: the propagator releases x and loops back to recv().
PropagatorRelease_Loops(c) ==
    /\ propagator[c].state = "sent"
    /\ propagator' = [propagator EXCEPT ![c].state = "waiting"]
    /\ strong' = [strong EXCEPT ![c] = @ - 1]
    /\ task' = AfterSenderDrop(c)
    /\ UNCHANGED <<context, signal>>

\* The closure |x| x.send(()) returns: x is dropped, a separate operation on
\* the channel after the send; then the propagator task ends.
PropagatorRelease(c) ==
    /\ propagator[c].state = "sent"
    /\ propagator' = [propagator EXCEPT ![c].state = "relayed"]
    /\ strong' = [strong EXCEPT ![c] = @ - 1]
    /\ task' = AfterSenderDrop(c)
    /\ UNCHANGED <<context, signal>>

\* ---- spawn_with_timeout ----

NextTask == CHOOSE t \in Tasks : task[t].state = "unspawned"
                /\ \A u \in Tasks : u < t => task[u].state # "unspawned"

Dropped == {c \in Ctxs : context[c] = "dropped"}

\* The classes of the timeout argument: None, and Some(duration) with
\*   "zero": a duration of zero, the deadline is not in the future;
\*   "some": an ordinary duration;
\*   "near": Instant::now() + duration exists but lies within a millisecond
\*           of the largest Instant;
\*   "max":  Instant::now() + duration overflows (Duration::MAX).
Timeouts == {"none", "zero", "some", "near", "max"}

\* timeout is one of Timeouts.  tokio::task::spawn schedules the new task.
spawn_with_timeout(c, len, out, timeout) ==
    /\ context[c] = "alive"
    /\ \E t \in Tasks : task[t].state = "unspawned"
    /\ task' = [task EXCEPT ![NextTask] =
                  [state |-> "pending", ctx |-> c, len |-> len, out |-> out,
                   timeout |-> timeout, progress |-> 0, rx |-> subscribe(c),
                   result |-> Pending, deadAtSpawn |-> Dropped, woken |-> TRUE]]
    /\ UNCHANGED <<context, signal, strong, propagator>>

\* Context::spawn
spawn(c, len, out) == spawn_with_timeout(c, len, out, "none")

\* Mutant: the deadline arm forgets its sleep branch.
Branches_NoSleep(t) == <<"future", "rx">>

\* The branches of the select!, in source order.  The sleep branch exists in
\* the Some(duration) arm only.
Branches(t) ==
    IF task[t].timeout = "none" THEN <<"future", "rx">> ELSE <<"future", "rx", "sleep">>

\* select! polls every branch once, cyclically from a random start.
Order(t, start) ==
    LET n == Len(Branches(t))
    IN  [i \in 1..n |-> Branches(t)[((start + i - 1) % n) + 1]]

\* Polling the user future performs its next step; it is Ready at its last step.
FutureReady(t) == task[t].len # Never /\ task[t].progress + 1 = task[t].len

FutureProgress(t) ==
    IF task[t].progress < MaxSteps THEN task[t].progress + 1 ELSE task[t].progress

\* Branch b is polled after the user future in this poll, and the user future
\* has used up the task's cooperative budget in its own poll (hungry): b finds
\* the budget empty.
Starved(t, b, start, hungry) ==
    LET ord == Order(t, start)
    IN  /\ hungry
        /\ b # "future"
        /\ \E i, j \in 1..Len(ord) : i < j /\ ord[i] = "future" /\ ord[j] = b

\* The poll of branch b panics: the sleep, polled with budget, registers a
\* timer whose deadline is too near the largest Instant.
BranchPanics(t, b, start, hungry) ==
    b = "sleep" /\ task[t].timeout = "near" /\ ~Starved(t, b, start, hungry)

\* The poll of branch b returns Ready.  rx.recv() and the sleep return Pending
\* on an empty budget, whatever they hold; the sleep is Ready when its
\* deadline is not in the future: at once for a zero duration, and after the
\* deadline of an ordinary one has passed.
BranchReady(t, b, start, hungry) ==
    CASE b = "future" -> FutureReady(t)
      [] b = "rx" -> RecvReady(task[t].ctx, task[t].rx) /\ ~Starved(t, b, start, hungry)
      [] b = "sleep" -> task[t].timeout \in {"zero", "elapsed"}
                        /\ ~Starved(t, b, start, hungry)

\* Index in Order(t, start) of the branch that ends this poll (the first one
\* that is Ready or panics), 0 when all are pending.
Winner(t, start, hungry) ==
    LET ord == Order(t, start)
        ready == {i \in 1..Len(ord) : \/ BranchReady(t, ord[i], start, hungry)
                                      \/ BranchPanics(t, ord[i], start, hungry)}
    IN  IF ready = {} THEN 0 ELSE CHOOSE i \in ready : \A j \in ready : i <= j

\* The user future is polled in this poll: it comes no later than the winner.
FuturePolled(t, start, hungry) ==
    LET ord == Order(t, start)
        w == Winner(t, start, hungry)
    IN  w = 0 \/ \E i \in 1..w : ord[i] = "future"

\* Mutant: the future's branch yields None.
SelectResult_FutureNone(t, start, hungry) ==
    IF Winner(t, start, hungry) = 0 THEN Pending ELSE None

\* res = future => Some(res), _ = rx.recv() => None, _ = sleep_until(..) => None;
\* a panic in the poll of a branch ends the task with Err(JoinError).
SelectResult(t, start, hungry) ==
    LET ord == Order(t, start)
        w == Winner(t, start, hungry)
    IN  IF w = 0 THEN Pending
        ELSE IF BranchPanics(t, ord[w], start, hungry) THEN Panicked
        ELSE IF ord[w] = "future" THEN Some(task[t].out)
        ELSE None

\* A branch met the empty budget in this poll: it has rescheduled the task.
BudgetHit(t, start, hungry) ==
    \E b \in {"rx", "sleep"} :
        /\ \E i \in 1..Len(Order(t, start)) : Order(t, start)[i] = b
        /\ Starved(t, b, start, hungry)

\* Mutant: the race is polled again after it resolved.
CanPoll_AfterDone(t) == task[t].state # "unspawned"

\* The runtime polls the race task when it is scheduled; the task is
\* scheduled only while its JoinHandle is unresolved.
CanPoll(t) == task[t].state = "pending" /\ task[t].woken

\* Instant::now() + duration overflows (Duration::MAX): the addition panics.
DeadlineOverflows(t) == task[t].timeout = "max"

\* sleep_until(Instant::now() + duration) is evaluated when the select! is
\* entered, in the first poll of the task: that fixes the deadline.  The
\* deadline of an ordinary duration lies ahead ("armed"), that of a zero
\* duration has passed already ("elapsed"); a deadline too near the largest
\* Instant stays "near" until the sleep's poll panics, and no deadline is
\* made when the addition panics.
TimerAfterPoll(t) ==
    CASE task[t].timeout = "some" -> "armed"
      [] task[t].timeout = "zero" -> "elapsed"
      [] OTHER -> task[t].timeout

\* One poll of the race task, which the runtime makes when the task is
\* scheduled.  start is the random start of the select!, hungry tells whether
\* the user future uses up the cooperative budget in this poll.  A poll that
\* returns Pending leaves the task parked on the wakers of its branches,
\* unless a branch met the empty budget and rescheduled it.  With an
\* overflowing deadline the task panics before any branch is polled; with a
\* deadline too near the largest Instant it panics when the select! reaches
\* the sleep branch with budget left, after the branches polled before it.
Poll(t, start, hungry) ==
    /\ CanPoll(t)
    /\ start \in 0..(Len(Branches(t)) - 1)
    /\ IF DeadlineOverflows(t)
       THEN task' = [task EXCEPT
                      ![t].result = Panicked,
                      ![t].state = "done",
                      ![t].woken = FALSE]
       ELSE LET r == SelectResult(t, start, hungry)
            IN  task' = [task EXCEPT
                      ![t].progress = IF FuturePolled(t, start, hungry)
                                      THEN FutureProgress(t) ELSE @,
                      ![t].timeout = TimerAfterPoll(t),
                      ![t].result = r,
                      ![t].state = IF r = Pending THEN "pending" ELSE "done",
                      ![t].woken = (r = Pending /\ BudgetHit(t, start, hungry))]
    /\ UNCHANGED <<context, signal, strong, propagator>>

\* The waker the user future left behind in its last poll is called (by the
\* future itself or by what it awaits): the parked task is scheduled.
FutureWake(t) ==
    /\ task[t].state = "pending"
    /\ ~task[t].woken
    /\ task' = [task EXCEPT ![t].woken = TRUE]
    /\ UNCHANGED <<context, signal, strong, propagator>>

\* The deadline of sleep_until(Instant::now() + duration) passes: the timer
\* calls the waker of the task.
DeadlineElapse(t) ==
    /\ task[t].state = "pending"
    /\ task[t].timeout = "armed"
    /\ task' = [task EXCEPT ![t].timeout = "elapsed", ![t].woken = TRUE]
    /\ UNCHANGED <<context, signal, strong, propagator>>

\* ---- specification ----

\* Context::new has made the root: a fresh channel, no propagator.
Init ==
    /\ context = [c \in Ctxs |-> IF c = Root THEN "alive" ELSE "absent"]
    /\ signal = [c \in Ctxs |-> 0]
    /\ strong = [c \in Ctxs |-> IF c = Root THEN 1 ELSE 0]
    /\ propagator = [c \in Ctxs |-> NoPropagator]
    /\ task = [t \in Tasks |-> NoTask]

Next ==
    \/ \E p \in Ctxs : new_child_context(p)
    \/ \E p \in Ctxs : with_parent(p)
    \/ \E c \in Ctxs : DropContext(c)
    \/ \E c \in Ctxs : cancel(c)
    \/ \E c \in Ctxs : PropagatorWake(c)
    \/ \E c \in Ctxs : PropagatorSend(c)
    \/ \E c \in Ctxs : PropagatorRelease(c)
    \/ \E c \in Ctxs, len \in Lens, out \in Outputs, tm \in Timeouts :
          spawn_with_timeout(c, len, out, tm)
    \/ \E c \in Ctxs, len \in Lens, out \in Outputs : spawn(c, len, out)
    \/ \E t \in Tasks, start \in 0..2, hungry \in BOOLEAN : Poll(t, start, hungry)
    \/ \E t \in Tasks : FutureWake(t)
    \/ \E t \in Tasks : DeadlineElapse(t)

Spec == Init /\ [][Next]_vars

\* The runtime runs a propagator whose recv() is complete, to its end.
PropagatorFairness ==
    /\ \A c \in Ctxs : WF_vars(PropagatorWake(c)) /\ WF_vars(PropagatorSend(c))
    /\ \A c \in Ctxs : WF_vars(PropagatorRelease(c))

\* One poll of race task t whose select! starts at branch start.
PollAt(t, start) == \E hungry \in BOOLEAN : Poll(t, start, hungry)

\* The states in which PollAt(t, start) can happen: the guard of Poll. Every
\* poll changes the task (it clears woken or resolves the task), so this is
\* ENABLED <<PollAt(t, start)>>_vars.
PollEnabled(t, start) == CanPoll(t) /\ start \in 0..(Len(Branches(t)) - 1)

\* The runtime polls a scheduled race task (Poll is enabled for a scheduled
\* task only); the select! draws its start at random, so a task that stays
\* scheduled meets every start; timers fire; a user future that completes has
\* its waker called until it is complete (one that never completes may stay
\* parked for ever). The first conjunct is WF_vars(PollAt(t, start)) written
\* out with PollEnabled for its enabling condition.
TaskFairness ==
    /\ \A t \in Tasks, start \in 0..2 :
          ([]<>~PollEnabled(t, start)) \/ []<><<PollAt(t, start)>>_vars
    /\ \A t \in Tasks : WF_vars(task[t].len # Never /\ FutureWake(t))
    /\ \A t \in Tasks : WF_vars(DeadlineElapse(t))

Fairness == PropagatorFairness /\ TaskFairness

FairSpec == Spec /\ Fairness

\* The propagators alone are scheduled fairly.
PropagatorFairSpec == Spec /\ PropagatorFairness

\* The race tasks alone are scheduled fairly.
TaskFairSpec == Spec /\ TaskFairness

TypeOK ==
    /\ context \in [Ctxs -> {"absent", "alive", "dropped"}]
    /\ signal \in [Ctxs -> 0..1]
    /\ strong \in [Ctxs -> 0..2]
    /\ \A c \in Ctxs : propagator[c].state \in {"none", "waiting", "upgraded", "sent", "relayed", "discarded"}
    /\ \A t \in Tasks : task[t].state \in {"unspawned", "pending", "done"}
    /\ \A t \in Tasks : task[t].timeout \in Timeouts \cup {"armed", "elapsed"}
    /\ \A t \in Tasks : task[t].woken \in BOOLEAN
    /\ \A t \in Tasks : task[t].woken => task[t].state = "pending"

\* ---- vocabulary of the properties ----

IsPending(t) == task[t].state = "pending"
IsDone(t) == task[t].state = "done"
\* The user future of t never completes by itself and t has no deadline.
RunsForEver(t) == task[t].len = Never /\ task[t].timeout = "none"
\* Some context on the path from c to the root has been cancelled or dropped.
CancelledAbove(c) == \E a \in AncestorsOrSelf(c) : context[a] = "dropped"
\* c's Signal has completed: a value was sent on it or it is closed.
Completed(c) == c \in Ctxs /\ (signal[c] > 0 \/ Closed(c))
\* c's propagator has forwarded a cancellation into c's Signal and ended.
Relayed(c) == c \in Ctxs /\ propagator[c].state = "relayed"
\* c's propagator owns a strong Sender of c's Signal (the upgraded x).
HoldsHandle(c) == c \in Ctxs /\ propagator[c].state \in {"upgraded", "sent"}

\* ---- C1 ----

\* C1: after cancel(c) or drop of c, every task spawned before that moment on
\* c or on a descendant of c, and still unresolved, eventually resolves (to
\* None, or to Some when its future completed first).
C1_DownwardCancellation ==
    \A c \in Ctxs, t \in Tasks :
        (/\ context[c] = "dropped"
         /\ IsPending(t)
         /\ c \in AncestorsOrSelf(task[t].ctx)
         /\ c \notin task[t].deadAtSpawn)
        ~> (task[t].result = None \/ task[t].result.tag = "Some")

\* ---- C2 ----

\* C2: a task spawned on a context after that context's propagator relayed an
\* ancestor's cancellation (no deadline, future never completing) eventually
\* resolves to None.
C2_RelayedIsTerminal ==
    \A t \in Tasks :
        (/\ IsPending(t)
         /\ RunsForEver(t)
         /\ Relayed(task[t].ctx)
         /\ task[t].rx = signal[task[t].ctx])
        ~> (task[t].result = None)

\* ---- C3 ----

\* C3: a child created from a context that had already received a forwarded
\* cancellation is cancelled too: its tasks (no deadline, future never
\* completing) eventually resolve to None.
C3_LateChildCancelled ==
    \A t \in Tasks :
        (/\ IsPending(t)
         /\ RunsForEver(t)
         /\ Parent(task[t].ctx) # 0
         /\ Relayed(Parent(task[t].ctx))
         /\ propagator[task[t].ctx].rx = signal[Parent(task[t].ctx)])
        ~> (task[t].result = None)

\* ---- C4 ----

\* C4: cancellation never travels upward or sideways: a task has resolved to
\* None only if its own context or an ancestor of it was cancelled or dropped,
\* or its own deadline elapsed; and a context's Signal has completed only if
\* that context or an ancestor of it was cancelled or dropped.
C4_NoUpwardOrSideways ==
    /\ \A t \in Tasks :
          task[t].result = None =>
              (CancelledAbove(task[t].ctx) \/ task[t].timeout = "elapsed")
    /\ \A c \in Ctxs : Completed(c) => CancelledAbove(c)

\* A child has been dropped (its propagator is still parked) while a task of the
\* parent has been polled and is still running under the parent's open Signal.
C4_Witness ==
    \E t \in Tasks, c \in Ctxs :
        /\ context[c] = "dropped"
        /\ propagator[c].state = "waiting"
        /\ Parent(c) = task[t].ctx
        /\ IsPending(t)
        /\ task[t].progress > 0
        /\ ~Completed(task[t].ctx)

\* ---- C5 ----

\* A propagator that wakes for a child that was destroyed before the wake-up.
StaleWake(c) ==
    /\ propagator[c].state = "waiting"
    /\ context[c] = "dropped"
    /\ propagator'[c].state # "waiting"

\* C5: a stale relay is a silent no-op: the propagator of a destroyed child
\* ends in Discarded without emitting and without touching anything else,
\* while the propagator of a child that stays alive still relays.
C5_StaleRelayNoOp ==
    /\ [][\A c \in Ctxs :
            StaleWake(c) =>
                /\ propagator'[c].state = "discarded"
                /\ signal' = signal
                /\ context' = context
                /\ task' = task
                /\ \A d \in Ctxs \ {c} : propagator'[d] = propagator[d]]_vars
    /\ \A c \in Ctxs :
          (propagator[c].state = "waiting" /\ context[Parent(c)] = "dropped")
          ~> (Relayed(c) \/ context[c] = "dropped")

\* The parent was cancelled; one child's propagator was discarded, a sibling's relayed.
C5_Witness ==
    \E c, d \in Ctxs :
        /\ c # d
        /\ Parent(c) = Parent(d)
        /\ Parent(c) # 0
        /\ context[Parent(c)] = "dropped"
        /\ propagator[c].state = "discarded"
        /\ signal[c] = 0
        /\ Relayed(d)

\* ---- C6 ----

\* C6: a task with no deadline whose future completes with v, on a context
\* that is never cancelled (nor any ancestor), eventually resolves to Some(v)
\* and never to None.
C6_CompletesUnderLiveContext ==
    /\ \A t \in Tasks :
          (IsPending(t) /\ task[t].timeout = "none" /\ task[t].len # Never)
          ~> (task[t].result = Some(task[t].out) \/ CancelledAbove(task[t].ctx))
    /\ [](\A t \in Tasks :
            (task[t].state # "unspawned" /\ task[t].timeout = "none"
                /\ ~CancelledAbove(task[t].ctx)) =>
                task[t].result # None)

\* A two-step future has run to completion under contexts that are all alive.
C6_Witness ==
    \E t \in Tasks :
        /\ task[t].timeout = "none"
        /\ task[t].len = MaxSteps
        /\ task[t].result = Some(task[t].out)
        /\ Parent(task[t].ctx) # 0
        /\ ~CancelledAbove(task[t].ctx)

\* ---- C7 ----

\* C7 as claimed: a task whose deadline elapsed while it was unresolved has
\* resolved to None.
C7_DeadlineGivesNone ==
    \A t \in Tasks :
        (IsDone(t) /\ task[t].timeout = "elapsed") => task[t].result = None

\* The deadline of task t has passed: the timer fired, or the deadline was
\* already reached when the sleep was created.
DeadlinePassed(t) == task[t].timeout \in {"zero", "elapsed"}

\* C7 amended: once the deadline has passed the task stays scheduled until it
\* resolves, and it does resolve, whether or not any context is cancelled: to
\* None, unless the user future completes in the resolving poll, the select
\* polling it before it finds the deadline branch ready, which gives
\* Some(output); a future that never completes always gives None. The result
\* is Some(output) only if the future ran to completion before the race
\* observed the passed deadline or any cancellation: it is set by the poll in
\* which the future completes, and a race that has resolved to None, having
\* observed either, never yields Some.
C7_DeadlineResolves ==
    /\ \A t \in Tasks :
          (IsPending(t) /\ DeadlinePassed(t)) ~> IsDone(t)
    /\ [](\A t \in Tasks :
            (IsPending(t) /\ DeadlinePassed(t)) => task[t].woken)
    /\ [][\A t \in Tasks :
            (IsPending(t) /\ DeadlinePassed(t) /\ IsDone(t)') =>
                \/ task'[t].result = None
                \/ (FutureReady(t) /\ task'[t].result = Some(task[t].out))]_vars
    /\ [](\A t \in Tasks :
            (IsDone(t) /\ DeadlinePassed(t) /\ task[t].len = Never) =>
                task[t].result = None)
    /\ [][\A t \in Tasks, v \in Outputs :
            (task'[t].result = Some(v) /\ task[t].result # Some(v)) =>
                /\ IsPending(t)
                /\ FutureReady(t)
                /\ v = task[t].out
                /\ task'[t].progress = task[t].len]_vars
    /\ [](\A t \in Tasks, v \in Outputs :
            task[t].result = Some(v) =>
                (v = task[t].out /\ task[t].progress = task[t].len))

\* The deadline alone has resolved a task: nothing above it is cancelled.
C7_Witness ==
    \E t \in Tasks :
        /\ task[t].timeout = "elapsed"
        /\ task[t].result = None
        /\ task[t].progress > 0
        /\ ~CancelledAbove(task[t].ctx)

\* ---- C8 ----

\* C8: once a race has resolved to None the user future performs no further
\* step, the steps it made are kept, and the result stays None.
C8_CancelledFutureStops ==
    [][\A t \in Tasks :
          /\ task[t].result = None =>
                (task'[t].result = None /\ task'[t].progress = task[t].progress)
          /\ (task[t].state # "unspawned" /\ task'[t].result = None) =>
                task'[t].progress >= task[t].progress]_vars

\* A future that made a step was cancelled by an ancestor's cancellation.
C8_Witness ==
    \E t \in Tasks :
        /\ task[t].result = None
        /\ task[t].progress > 0
        /\ task[t].progress < MaxSteps
        /\ task[t].timeout = "none"
        /\ context[task[t].ctx] = "alive"

\* ---- C9 ----

\* A step that creates child c (new_child_context, with_parent).
CreatesChild(c) == context[c] = "absent" /\ context'[c] = "alive"
\* A step that spawns task t (spawn, spawn_with_timeout).
Spawns(t) == task[t].state = "unspawned" /\ task'[t].state = "pending"

\* C9: creating a child leaves the caller as it was (Signal not completed, no
\* value emitted, tasks untouched, still alive and usable), and spawning a task
\* leaves every Signal and every other task as it was.
C9_CallerUnchanged ==
    [][/\ \A c \in Ctxs :
            CreatesChild(c) =>
                /\ signal' = signal
                /\ task' = task
                /\ \A d \in Ctxs \ {c} :
                      /\ context'[d] = context[d]
                      /\ propagator'[d] = propagator[d]
                      /\ strong'[d] = strong[d]
                /\ \A p \in Ctxs :
                      propagator'[c].parent = p =>
                          /\ context'[p] = "alive"
                          /\ Completed(p)' = Completed(p)
       /\ \A t \in Tasks :
            Spawns(t) =>
                /\ signal' = signal
                /\ context' = context
                /\ propagator' = propagator
                /\ \A c \in Ctxs : Completed(c)' = Completed(c)
                /\ \A u \in Tasks \ {t} : task'[u] = task[u]]_vars

\* A context with a running task has made a child and then a second one.
C9_Witness ==
    \E c, d \in Ctxs, t \in Tasks :
        /\ c # d
        /\ Parent(c) = Parent(d)
        /\ Parent(c) # 0
        /\ task[t].ctx = Parent(c)
        /\ task[t].rx = 0
        /\ IsPending(t)
        /\ task[t].progress > 0
        /\ ~Completed(Parent(c))

\* ---- C10 ----

\* Propagator transitions the code allows; "upgraded" and "sent" are the
\* instants of the relay: between the successful upgrade and the emit, and
\* between the emit and the release of the upgraded Sender.
PropagatorStep(from, to) ==
    \/ from = to
    \/ from = "none" /\ to = "waiting"
    \/ from = "waiting" /\ to \in {"upgraded", "discarded"}
    \/ from = "upgraded" /\ to = "sent"
    \/ from = "sent" /\ to = "relayed"

\* C10: a propagator goes Waiting -> Relayed or Waiting -> Discarded and nothing
\* else, emits on the child's Signal at most once and only after a successful
\* upgrade (child alive at the upgrade); Relayed and Discarded are absorbing.
C10_PropagatorStateMachine ==
    [][\A c \in Ctxs :
          /\ PropagatorStep(propagator[c].state, propagator'[c].state)
          /\ (propagator[c].state = "waiting" /\ propagator'[c].state = "upgraded") =>
                context[c] = "alive"
          /\ signal'[c] # signal[c] =>
                /\ signal[c] = 0 /\ signal'[c] = 1
                /\ propagator[c].state = "upgraded"
                /\ propagator'[c].state = "sent"
          /\ propagator[c].state = "sent" => signal'[c] = signal[c]
          /\ propagator[c].state \in {"relayed", "discarded"} =>
                propagator'[c] = propagator[c] /\ signal'[c] = signal[c]]_vars

\* One propagator has relayed and another has been discarded.
C10_Witness ==
    \E c, d \in Ctxs :
        /\ Relayed(c)
        /\ signal[c] = 1
        /\ propagator[d].state = "discarded"
        /\ signal[d] = 0

\* ---- C11 ----

\* The propagator of c has ended.
Terminated(c) == c \in Ctxs /\ propagator[c].state \in {"relayed", "discarded"}

\* C11: propagators end exactly when their parent's Signal completes: once the
\* parent is cancelled or dropped the propagator eventually ends (Relayed or
\* Discarded), and a propagator leaves Waiting only if its parent was
\* cancelled or dropped or received a relay, whatever happens to its child.
C11_PropagatorsTerminate ==
    /\ \A c \in Ctxs :
          (propagator[c].state = "waiting" /\ context[Parent(c)] = "dropped")
          ~> Terminated(c)
    /\ [][\A c \in Ctxs :
            (propagator[c].state = "waiting" /\ propagator'[c].state # "waiting") =>
                (context[Parent(c)] = "dropped" \/ signal[Parent(c)] > 0)]_vars

\* Every context has been destroyed and every propagator has ended, one of
\* them by a relay and one by a failed upgrade.
C11_Witness ==
    /\ \A c \in Ctxs : context[c] = "dropped"
    /\ \A c \in Ctxs \ {Root} : Terminated(c)
    /\ \E c, d \in Ctxs : Relayed(c) /\ propagator[d].state = "discarded"

\* ---- C12 ----

\* C12: per-edge causality: a value has been emitted on a context's Signal (or
\* its propagator is about to emit one) only if the parent's Signal had
\* already completed; so in a chain R -> A -> B with A and B alive, B's Signal
\* never completes before A's.
C12_PerEdgeCausality ==
    \A c \in Ctxs :
        /\ (signal[c] > 0 \/ HoldsHandle(c)) => Completed(Parent(c))
        /\ (Parent(c) # 0 /\ context[c] = "alive" /\ Completed(c)) => Completed(Parent(c))

\* R -> A -> B with R cancelled, A and B alive: A's Signal has completed by a
\* relay and B's has completed after it.
C12_Witness ==
    \E a, b \in Ctxs :
        /\ Parent(b) = a
        /\ Parent(a) = Root
        /\ context[Root] = "dropped"
        /\ context[a] = "alive"
        /\ context[b] = "alive"
        /\ signal[a] = 1
        /\ signal[b] = 1

\* ---- C13 ----

\* C13: a Signal closes only through the destruction of its own Context (an
\* ancestor's cancellation only emits a value on a live context's Signal), and
\* a closed Signal never opens again.
C13_ClosedOnlyByOwnDrop ==
    /\ [](\A c \in Ctxs : Closed(c) => context[c] = "dropped")
    /\ [][\A c \in Ctxs : Closed(c) => Closed(c)']_vars

\* A live context has received its cancelled parent's relay and its Signal is
\* still open, while the parent's Signal is closed.
C13_Witness ==
    \E c \in Ctxs :
        /\ context[c] = "alive"
        /\ Relayed(c)
        /\ signal[c] = 1
        /\ ~Closed(c)
        /\ Closed(Parent(c))

\* ---- C14 ----

\* C14: ownership discipline: a live Context holds the one strong handle of
\* its Signal; its propagator holds none, except the handle it reacquires
\* for the emit (from the upgrade to the release that follows the emit), and
\* the step after the emit is that release.
C14_OwnershipDiscipline ==
    /\ [](\A c \in Ctxs :
            context[c] # "absent" =>
                StrongCount(c) = (IF context[c] = "alive" THEN 1 ELSE 0)
                                 + (IF HoldsHandle(c) THEN 1 ELSE 0))
    /\ [][\A c \in Ctxs :
            (propagator[c].state = "sent" /\ propagator'[c] # propagator[c]) =>
                /\ ~HoldsHandle(c)'
                /\ StrongCount(c)' = StrongCount(c) - 1]_vars

\* One propagator has emitted and still holds its reacquired handle beside
\* the live Context's, and another has emitted and released: that Context is
\* the sole owner again.
C14_Witness ==
    \E c, d \in Ctxs :
        /\ propagator[c].state = "sent"
        /\ signal[c] = 1
        /\ context[c] = "alive"
        /\ StrongCount(c) = 2
        /\ Relayed(d)
        /\ context[d] = "alive"
        /\ StrongCount(d) = 1

\* ---- C15 ----

\* The race task t has not been polled yet.
NotPolledYet(t) == IsPending(t) /\ task[t].progress = 0 /\ task[t].timeout # "armed"
    /\ task[t].timeout # "elapsed"

\* C15: no cancellation is lost at start-up: the subscription exists when
\* new_child_context / spawn_with_timeout returns, so a context cancelled
\* before the propagator or the race task first runs still makes the
\* propagator wake and relay (to a child that stays alive), and still resolves
\* the race to None (to Some only if the future completes before a poll of
\* the race finds the Signal complete).
C15_NoLostCancellation ==
    /\ \A t \in Tasks :
          (NotPolledYet(t) /\ context[task[t].ctx] = "dropped")
          ~> \/ task[t].result = None
             \/ (task[t].len # Never /\ task[t].result = Some(task[t].out))
    /\ \A c \in Ctxs :
          (/\ propagator[c].state = "waiting"
           /\ \/ context[Parent(c)] = "dropped"
              \/ signal[Parent(c)] > propagator[c].rx)
          ~> (Relayed(c) \/ context[c] = "dropped")
    /\ [][/\ \A c \in Ctxs :
                CreatesChild(c) =>
                    \A p \in Ctxs :
                        propagator'[c].parent = p => propagator'[c].rx = signal[p]
          /\ \A t \in Tasks :
                Spawns(t) =>
                    \A c \in Ctxs : task'[t].ctx = c => task'[t].rx = signal[c]]_vars

\* ---- C16 ----

\* The capacity of broadcast::channel(1).
Capacity == 1

\* C16: at most one value is ever sent on a context's Signal, none on a
\* root's; so the channel never holds more than its capacity and no live
\* Receiver (race task or propagator) lags behind.
C16_AtMostOneValue ==
    /\ \A c \in Ctxs : signal[c] <= 1
    /\ signal[Root] = 0
    /\ \A t \in Tasks : IsPending(t) => signal[task[t].ctx] <= task[t].rx + Capacity
    /\ \A c \in Ctxs :
          propagator[c].state = "waiting" => signal[Parent(c)] <= propagator[c].rx + Capacity

\* A relayed value sits in a child's channel for a race task and a propagator
\* that subscribed before it.
C16_Witness ==
    \E c, d \in Ctxs, t \in Tasks :
        /\ signal[c] = 1
        /\ IsPending(t)
        /\ task[t].ctx = c
        /\ task[t].rx = 0
        /\ Parent(d) = c
        /\ propagator[d].state = "waiting"
        /\ propagator[d].rx = 0

\* ---- C17 ----

\* C17: the race between dropping a child and its propagator's
\* upgrade-emit-release is benign: once the child is dropped its Signal ends
\* closed and every pending task of it resolves (to None unless its future
\* completes first), and a strong handle survives the Context only inside the
\* propagator's upgrade-emit-release sequence, whose end releases it.
C17_DropRaceBenign ==
    /\ \A c \in Ctxs : (context[c] = "dropped") ~> Closed(c)
    /\ \A t \in Tasks :
          (IsPending(t) /\ context[task[t].ctx] = "dropped")
          ~> \/ task[t].result = None
             \/ (task[t].len # Never /\ task[t].result = Some(task[t].out))
    /\ [](\A c \in Ctxs :
            (context[c] = "dropped" /\ ~Closed(c)) => HoldsHandle(c))
    /\ [][\A c \in Ctxs :
            (HoldsHandle(c) /\ ~HoldsHandle(c)') =>
                /\ StrongCount(c)' = StrongCount(c) - 1
                /\ context[c] = "dropped" => Closed(c)']_vars
====
